---- MODULE Spec2Model ----
(***************************************************************************)
(* Model of the workflow engine: admission of a workflow definition        *)
(* (dsl/schema.py, WorkflowDefinition.validate_tasks) and one run of       *)
(* WorkflowEngineWorkflow (core/workflows.py): the dependency-driven       *)
(* scheduling loop, the concurrent batch, and the saga compensation pass;   *)
(* the state machine, the activity registry, the duration strings, and the *)
(* API service with the execution repository (api/services.py).            *)
(***************************************************************************)
EXTENDS Integers, Sequences, FiniteSets, TLC

\* Largest number of tasks in a workflow definition.
NumTasks == 3

TaskIds == 1..NumTasks

VARIABLES
    workflow_def,           \* the admitted definition: [tasks: Seq(Task)]
    pc,                     \* where run() stands
    completed_task_ids,     \* run(): local set completed_task_ids
    ready_tasks,            \* run(): local list ready_tasks of the current iteration
    task_results,           \* self.task_results: task id -> result
    failed_tasks,           \* self.failed_tasks: task id -> error message
    completed_tasks_order,  \* self.completed_tasks_order
    task_definitions,       \* self.task_definitions: task id -> Task
    workflow_status,        \* run(): local workflow_status
    workflow_error,         \* run(): local workflow_error (str(e)), NoError when None
    exc,                    \* the exception being handled / propagating in run()
    raised,                 \* the exception run() ended with, NoError when it returned
    workflow_result,        \* run(): local workflow_result, NoResult when None
    reported,               \* status updates sent to the persistence layer, in order
    comp_pos,               \* _run_compensations: entries of reversed(order) consumed
    compensation_calls,     \* number of times run() has called _run_compensations
    activity_state,         \* dispatch substrate: task id -> none/pending/ok/err
    resolution_order,       \* dispatch substrate: task ids in the order they resolved
    batches,                \* dispatch substrate: the ready lists dispatched, in order
    comp_log,               \* dispatch substrate: compensate_<id> dispatches, in order
    comp_state,             \* dispatch substrate: task id -> none/pending/ok/err
    cancellation,           \* dispatch substrate: the cancellation of the run is
                            \* none, requested or delivered
    dispatched_as,          \* dispatch substrate: task id -> none, or what
                            \* execute_activity was given: function or name
    initial_state,          \* WorkflowStateMachine.__init__: initial_state
    current_state,          \* WorkflowStateMachine.current_state
    lists,                  \* the list objects: "machine" is self.transitions,
                            \* "caller" the list last made by get_transitions
    returned_ref,           \* the list object the caller got from get_transitions
    sm_call,                \* the last call on the state machine and what it returned
    accepted_calls,         \* the transition calls that returned True, in order
    submitted,              \* the tasks handed to WorkflowDefinition(**data)
    adm_pc,                 \* where validate_tasks stands
    adm_visited,            \* validate_tasks: the set visited of the cycle check
    adm_error,              \* the ValueError validate_tasks raised, NoError when none
    validated,              \* WorkflowValidator.validate has been called
    errors,                 \* WorkflowValidator.validate: the list errors it returned
    activities,             \* ActivityRegistry._activities: activity type -> function
    temporal_activities,    \* ActivityRegistry._temporal_activities
    reg_call,               \* the last call on the registry and how it ended
    registrations,          \* the register calls made, in order
    duration_str,           \* the duration string under validation and parsing
    field,                  \* the field it is the value of: interval or timeout
    schema_result,          \* what the field's validator of the schema did with it
    parsed,                 \* what parse_duration did with it
    execution,              \* the WorkflowExecution the execution repository holds
    execute_pc,             \* where the call of execute_workflow stands
    cancel_pc,              \* where the call of cancel_execution stands
    cancel_id,              \* the execution id cancel_execution was called with
    cancel_seen,            \* the status of the execution get_by_id gave it
    cancel_result,          \* how the last call of cancel_execution ended
    cancel_calls,           \* number of calls of cancel_execution made
    updates_applied         \* number of the run's status updates the
                            \* update_execution_status activity has carried out

\* the variables of one run of WorkflowEngineWorkflow
run_vars == <<workflow_def, pc, completed_task_ids, ready_tasks, task_results,
              failed_tasks, completed_tasks_order, task_definitions, workflow_status,
              workflow_error, exc, raised, workflow_result, reported, comp_pos,
              compensation_calls, activity_state, resolution_order, batches,
              comp_log, comp_state, cancellation, dispatched_as>>

\* the variables of one WorkflowStateMachine and of its caller
sm_vars == <<initial_state, current_state, lists, returned_ref, sm_call,
             accepted_calls>>

\* the variables of one admission (WorkflowDefinition.validate_tasks) and of one
\* call of WorkflowValidator.validate
adm_vars == <<submitted, adm_pc, adm_visited, adm_error, validated, errors>>

\* the variables of the ActivityRegistry and of its caller
reg_vars == <<activities, temporal_activities, reg_call, registrations>>

\* the variables of one duration string on its way through the schema's
\* validator and parse_duration
dur_vars == <<duration_str, field, schema_result, parsed>>

\* the variables of the API service, of the execution repository and of the
\* update_execution_status activity
svc_vars == <<execution, execute_pc, cancel_pc, cancel_id, cancel_seen,
              cancel_result, cancel_calls, updates_applied>>

vars == <<run_vars, sm_vars, adm_vars, reg_vars, dur_vars, svc_vars>>

\* what a step of one component leaves alone: the variables of the others
not_run == <<sm_vars, adm_vars, reg_vars, dur_vars, svc_vars>>
not_sm == <<run_vars, adm_vars, reg_vars, dur_vars, svc_vars>>
not_adm == <<run_vars, sm_vars, reg_vars, dur_vars, svc_vars>>
not_reg == <<run_vars, sm_vars, adm_vars, dur_vars, svc_vars>>
not_dur == <<run_vars, sm_vars, adm_vars, reg_vars, svc_vars>>
not_svc == <<sm_vars, adm_vars, reg_vars, dur_vars>>

NoError == [kind |-> "None", task |-> 0]
NoResult == [status |-> "None", task_results |-> <<>>]

----------------------------------------------------------------------------
(* Helpers on sequences and sets *)

Range(s) == {s[i] : i \in DOMAIN s}

\* d with key k set to v (dict item assignment)
SetItem(d, k, v) == [x \in DOMAIN d \cup {k} |-> IF x = k THEN v ELSE d[x]]

RECURSIVE sorted(_)
\* ascending list of a finite set of integers
sorted(S) ==
    IF S = {} THEN <<>>
    ELSE LET m == CHOOSE x \in S : \A y \in S : x <= y
         IN <<m>> \o sorted(S \ {m})

\* iteration without reversed()
reversed_forward(s) == s

\* iteration over the reversed ids of task_definitions, whatever the list
reversed_task_definitions(s) ==
    LET ids == sorted(DOMAIN task_definitions)
    IN [i \in 1..Len(ids) |-> ids[Len(ids) + 1 - i]]

\* Python's reversed(list)
reversed(s) == [i \in 1..Len(s) |-> s[Len(s) + 1 - i]]

----------------------------------------------------------------------------
(* Admission: WorkflowDefinition.validate_tasks *)

\* graph.get(node, [])
graph_get(graph, node) == IF node \in DOMAIN graph THEN graph[node] ELSE {}

RECURSIVE has_cycle(_, _, _, _)
RECURSIVE visit_neighbors(_, _, _, _, _)

\* def has_cycle(node): the closure's visited and rec_stack are threaded through;
\* the result carries them back together with the returned boolean.
has_cycle(graph, node, visited, rec_stack) ==
    LET res == visit_neighbors(graph, sorted(graph_get(graph, node)), 1,
                               visited \cup {node}, rec_stack \cup {node})
    IN IF res.found THEN res
       ELSE [found |-> FALSE, visited |-> res.visited,
             rec_stack |-> res.rec_stack \ {node}]

\* the loop over the neighbours with "elif neighbor in visited" for the test of
\* the recursion stack
visit_neighbors_without_rec_stack(graph, nbrs, i, visited, rec_stack) ==
    IF i > Len(nbrs)
    THEN [found |-> FALSE, visited |-> visited, rec_stack |-> rec_stack]
    ELSE LET neighbor == nbrs[i] IN
         IF neighbor \notin visited
         THEN LET r == has_cycle(graph, neighbor, visited, rec_stack)
              IN IF r.found THEN r
                 ELSE visit_neighbors(graph, nbrs, i + 1, r.visited, r.rec_stack)
         ELSE [found |-> TRUE, visited |-> visited, rec_stack |-> rec_stack]

\* the body of "for neighbor in graph.get(node, [])" from position i on
visit_neighbors(graph, nbrs, i, visited, rec_stack) ==
    IF i > Len(nbrs)
    THEN [found |-> FALSE, visited |-> visited, rec_stack |-> rec_stack]
    ELSE LET neighbor == nbrs[i] IN
         IF neighbor \notin visited
         THEN LET r == has_cycle(graph, neighbor, visited, rec_stack)
              IN IF r.found THEN r
                 ELSE visit_neighbors(graph, nbrs, i + 1, r.visited, r.rec_stack)
         ELSE IF neighbor \in rec_stack
              THEN [found |-> TRUE, visited |-> visited, rec_stack |-> rec_stack]
              ELSE visit_neighbors(graph, nbrs, i + 1, visited, rec_stack)

RECURSIVE cycle_scan(_, _, _, _)
\* "for task_id in task_ids: if task_id not in visited: if has_cycle(task_id): raise"
\* order is the iteration order of the set task_ids; 0 when no cycle is reported,
\* else the task id the error names
cycle_scan(graph, order, i, visited) ==
    IF i > Len(order) THEN 0
    ELSE IF order[i] \in visited THEN cycle_scan(graph, order, i + 1, visited)
    ELSE LET r == has_cycle(graph, order[i], visited, {})
         IN IF r.found THEN order[i]
            ELSE cycle_scan(graph, order, i + 1, r.visited)

task_ids_of(tasks) == {tasks[i].id : i \in DOMAIN tasks}

\* the dependency check without the test "dep_id not in task_ids"
bad_dependency_self_only(tasks) ==
    LET culprits == {i \in DOMAIN tasks : tasks[i].id \in tasks[i].depends_on}
    IN IF culprits = {} THEN 0
       ELSE tasks[CHOOSE i \in culprits : \A j \in culprits : i <= j].id

\* the first (task, dep) in declaration order that fails the dependency check
bad_dependency(tasks) ==
    LET task_ids == task_ids_of(tasks)
        bad(i) == {d \in tasks[i].depends_on : d \notin task_ids \/ d = tasks[i].id}
        culprits == {i \in DOMAIN tasks : bad(i) # {}}
    IN IF culprits = {} THEN 0
       ELSE tasks[CHOOSE i \in culprits : \A j \in culprits : i <= j].id

\* validate_tasks without its cycle check
validate_tasks_no_cycle_check(tasks, order) ==
    LET task_ids == task_ids_of(tasks)
    IN IF Cardinality(task_ids) # Len(tasks)
       THEN [ok |-> FALSE, error |-> "Duplicate task IDs found", task |-> 0]
       ELSE IF bad_dependency(tasks) # 0
       THEN [ok |-> FALSE, error |-> "bad dependency", task |-> bad_dependency(tasks)]
       ELSE [ok |-> TRUE, error |-> "", task |-> 0]

\* validate_tasks(cls, tasks); order is the iteration order of the set task_ids
validate_tasks(tasks, order) ==
    LET task_ids == task_ids_of(tasks)
        graph == [id \in task_ids |->
                    tasks[CHOOSE i \in DOMAIN tasks : tasks[i].id = id].depends_on]
    IN IF Cardinality(task_ids) # Len(tasks)
       THEN [ok |-> FALSE, error |-> "Duplicate task IDs found", task |-> 0]
       ELSE IF bad_dependency(tasks) # 0
       THEN [ok |-> FALSE, error |-> "bad dependency", task |-> bad_dependency(tasks)]
       ELSE LET c == cycle_scan(graph, order, 1, {})
            IN IF c # 0
               THEN [ok |-> FALSE, error |-> "Circular dependency detected", task |-> c]
               ELSE [ok |-> TRUE, error |-> "", task |-> 0]

\* a task of the DSL: id, activity_type (task i is of type i), depends_on, and
\* whether it defines a compensation
MakeTask(i, deps, comp) ==
    [id |-> i, activity_type |-> i, depends_on |-> deps, compensation |-> comp]

\* a definition submitted for admission: n tasks with ids 1..n in declaration
\* order, depends_on d[i] for task i, a compensation for the tasks in c
Definition(n, d, c) == [tasks |-> [i \in 1..n |-> MakeTask(i, d[i], i \in c)]]

\* any depends_on over the ids (self-dependencies and cycles included)
RawDependencies(n) == [1..n -> SUBSET (1..n)]

\* WorkflowDefinition(**data) succeeds
Admitted(w) == validate_tasks(w.tasks, sorted(task_ids_of(w.tasks))).ok

----------------------------------------------------------------------------
(* One admission, step by step, and WorkflowValidator.validate *)

\* a definition submitted for admission in which task u (none when u = 0) also
\* depends on n + 1, which is the id of no task
Submission(n, d, u) ==
    [tasks |-> [i \in 1..n |->
        MakeTask(i, d[i] \cup (IF i = u THEN {n + 1} ELSE {}), FALSE)]]

\* graph: task id -> depends_on (lines 118-121)
graph_of(tasks) ==
    [id \in task_ids_of(tasks) |->
        tasks[CHOOSE i \in DOMAIN tasks : tasks[i].id = id].depends_on]

RECURSIVE extend(_)
\* errors.extend over a list of lists
extend(lists_) ==
    IF lists_ = <<>> THEN <<>> ELSE Head(lists_) \o extend(Tail(lists_))

\* _validate_task without the test of the task's own id
validate_task_unknown_only(task, all_tasks) ==
    LET task_ids == task_ids_of(all_tasks)
        deps == sorted(task.depends_on)
    IN extend([k \in 1..Len(deps) |->
            IF deps[k] \notin task_ids THEN <<"Dependency does not exist">> ELSE <<>>])

\* WorkflowValidator._validate_task(task, all_tasks), lines 77-86; the id, the
\* name and the activity type of a task are not empty
validate_task(task, all_tasks) ==
    LET task_ids == task_ids_of(all_tasks)
        deps == sorted(task.depends_on)
    IN extend([k \in 1..Len(deps) |->
            (IF deps[k] \notin task_ids THEN <<"Dependency does not exist">> ELSE <<>>)
            \o (IF deps[k] = task.id THEN <<"Task cannot depend on itself">> ELSE <<>>)])

\* WorkflowValidator.validate(workflow); name and version are not empty and the
\* workflow has no parameters
validate(workflow) ==
    LET tasks == workflow.tasks
        unique == IF Cardinality(task_ids_of(tasks)) # Len(tasks)
                  THEN << [task |-> 0, error |-> "Task IDs must be unique"] >>
                  ELSE <<>>
        of_task(i) == LET task_errors == validate_task(tasks[i], tasks)
                      IN [k \in 1..Len(task_errors) |->
                             [task |-> tasks[i].id, error |-> task_errors[k]]]
    IN unique \o extend([i \in 1..Len(tasks) |-> of_task(i)])

\* the ValueError a validator raises
DefinitionError(error, task) == [error |-> error, task |-> task]
NoDefinitionError == DefinitionError("", 0)

\* WorkflowDefinition(tasks=...) is called and WorkflowValidator.validate is not
AdmissionStart(w) ==
    /\ submitted = w
    /\ adm_pc = "submitted"
    /\ adm_visited = {}
    /\ adm_error = NoDefinitionError
    /\ validated = FALSE
    /\ errors = <<>>

\* raise ValueError(...)
Reject(error, task) ==
    /\ adm_pc' = "rejected"
    /\ adm_error' = DefinitionError(error, task)

\* validate_tasks, lines 101-125: duplicate ids, then the dependencies
CheckTasks ==
    /\ adm_pc = "submitted"
    /\ LET tasks == submitted.tasks IN
       IF Cardinality(task_ids_of(tasks)) # Len(tasks)
       THEN Reject("Duplicate task IDs found", 0)
       ELSE IF bad_dependency(tasks) # 0
       THEN Reject("bad dependency", bad_dependency(tasks))
       ELSE adm_pc' = "scan" /\ UNCHANGED adm_error
    /\ UNCHANGED <<submitted, adm_visited, validated, errors, not_adm>>

\* validate_tasks, lines 139-142: the loop over the set task_ids comes to a task
\* not yet visited (the set's iteration order is any order) and calls has_cycle
ScanRoot ==
    /\ adm_pc = "scan"
    /\ \E task_id \in task_ids_of(submitted.tasks) \ adm_visited :
          LET r == has_cycle(graph_of(submitted.tasks), task_id, adm_visited, {})
          IN IF r.found
             THEN /\ Reject("Circular dependency detected", task_id)
                  /\ UNCHANGED adm_visited
             ELSE /\ adm_visited' = r.visited
                  /\ UNCHANGED <<adm_pc, adm_error>>
    /\ UNCHANGED <<submitted, validated, errors, not_adm>>

\* validate_tasks, line 144: the loop is over, return tasks
ScanDone ==
    /\ adm_pc = "scan"
    /\ task_ids_of(submitted.tasks) \subseteq adm_visited
    /\ adm_pc' = "admitted"
    /\ UNCHANGED <<submitted, adm_visited, adm_error, validated, errors, not_adm>>

\* WorkflowValidator.validate is called on the same tasks
Validate ==
    /\ adm_pc \in {"admitted", "rejected"}
    /\ ~validated
    /\ validated' = TRUE
    /\ errors' = validate(submitted)
    /\ UNCHANGED <<submitted, adm_pc, adm_visited, adm_error, not_adm>>

----------------------------------------------------------------------------
(* ActivityRegistry (core/task_executor.py) *)

\* Largest number of register calls on one registry.
MaxRegistrations == 3

\* the activity types: task i is of type i
ActivityTypes == TaskIds

\* the activity functions
Handlers == {"f", "g"}

RegistryCall(op, activity_type, result) ==
    [op |-> op, activity_type |-> activity_type, result |-> result]

\* ActivityRegistry.__init__
RegistryInit ==
    /\ activities = <<>>
    /\ temporal_activities = <<>>
    /\ reg_call = RegistryCall("init", 0, "None")
    /\ registrations = <<>>

\* the global activity_registry after the function f was registered for every
\* type in types, in ascending order
Registered(types) ==
    /\ activities = [t \in types |-> "f"]
    /\ temporal_activities = IF types = {} THEN <<>> ELSE <<"f">>
    /\ registrations = [k \in 1..Cardinality(types) |-> <<sorted(types)[k], "f">>]
    /\ reg_call = IF types = {} THEN RegistryCall("init", 0, "None")
                  ELSE RegistryCall("register", sorted(types)[Cardinality(types)], "None")

\* register that keeps the function a type already has
Register_first_wins(activity_type, activity_func) ==
    /\ Len(registrations) < MaxRegistrations
    /\ activities' = IF activity_type \in DOMAIN activities THEN activities
                     ELSE SetItem(activities, activity_type, activity_func)
    /\ temporal_activities' =
          IF activity_func \in Range(temporal_activities) THEN temporal_activities
          ELSE Append(temporal_activities, activity_func)
    /\ registrations' = Append(registrations, <<activity_type, activity_func>>)
    /\ reg_call' = RegistryCall("register", activity_type, "None")
    /\ UNCHANGED not_reg

\* register(activity_type, activity_func)
Register(activity_type, activity_func) ==
    /\ Len(registrations) < MaxRegistrations
    /\ activities' = SetItem(activities, activity_type, activity_func)
    /\ temporal_activities' =
          IF activity_func \in Range(temporal_activities) THEN temporal_activities
          ELSE Append(temporal_activities, activity_func)
    /\ registrations' = Append(registrations, <<activity_type, activity_func>>)
    /\ reg_call' = RegistryCall("register", activity_type, "None")
    /\ UNCHANGED not_reg

RegisterCall == \E t \in ActivityTypes : \E h \in Handlers : Register(t, h)

\* has(activity_type)
has(activity_type) == activity_type \in DOMAIN activities

\* get(activity_type): the function, or KeyError raised
get(activity_type) ==
    IF activity_type \notin DOMAIN activities THEN "KeyError"
    ELSE activities[activity_type]

\* a call of get
Get(activity_type) ==
    /\ reg_call' = RegistryCall("get", activity_type, get(activity_type))
    /\ UNCHANGED <<activities, temporal_activities, registrations, not_reg>>

GetCall == \E t \in ActivityTypes : Get(t)

\* a call of has
Has(activity_type) ==
    /\ reg_call' = RegistryCall("has", activity_type,
                                IF has(activity_type) THEN "True" ELSE "False")
    /\ UNCHANGED <<activities, temporal_activities, registrations, not_reg>>

HasCall == \E t \in ActivityTypes : Has(t)

----------------------------------------------------------------------------
(* Duration strings: RetryPolicy.validate_interval and Task.validate_timeout
   (dsl/schema.py), parse_duration (core/task_executor.py) *)

\* Largest length of a duration string.
MaxDurationLen == 4

\* the characters of the duration strings: three digits, the three units, a
\* letter that is no unit, and the letters of "inf"
Digits == {"0", "1", "5"}
Chars == Digits \cup {"s", "m", "h", "x", "i", "n", "f"}

\* a string is the sequence of its characters
Strings(n) == UNION {[1..k -> Chars] : k \in 0..n}

DigitValue(c) == CASE c = "0" -> 0 [] c = "1" -> 1 [] c = "5" -> 5

\* v[:-1] and v[-1] of a string that is not empty
Prefix(v) == SubSeq(v, 1, Len(v) - 1)
Last(v) == v[Len(v)]

RECURSIVE decimal(_)
\* the number a string of digits denotes
decimal(text) ==
    IF text = <<>> THEN 0
    ELSE 10 * decimal(Prefix(text)) + DigitValue(Last(text))

\* Python's float(text) on these strings: a number for a string of digits,
\* infinity for "inf", ValueError for anything else
float(text) ==
    IF text # <<>> /\ \A k \in DOMAIN text : text[k] \in Digits
    THEN [raises |-> "None", inf |-> FALSE, value |-> decimal(text)]
    ELSE IF text = <<"i", "n", "f">>
    THEN [raises |-> "None", inf |-> TRUE, value |-> 0]
    ELSE [raises |-> "ValueError", inf |-> FALSE, value |-> 0]

\* RetryPolicy.validate_interval(v): "accepted" when it returns v, else what it raises
validate_interval(v) ==
    IF v = <<>> THEN "ValueError"
    ELSE IF Last(v) \notin {"s", "m", "h"} THEN "ValueError"
    ELSE IF float(Prefix(v)).raises # "None" THEN "ValueError"
    ELSE "accepted"

\* Task.validate_timeout(v) for a string v: v[-1] of the empty string raises
\* IndexError
validate_timeout(v) ==
    IF v = <<>> THEN "IndexError"
    ELSE IF Last(v) \notin {"s", "m", "h"} THEN "ValueError"
    ELSE IF float(Prefix(v)).raises # "None" THEN "ValueError"
    ELSE "accepted"

Duration(status, seconds) == [status |-> status, seconds |-> seconds]

\* timedelta(seconds=value * factor): an infinite value raises OverflowError
timedelta(value, factor) ==
    IF value.inf THEN Duration("OverflowError", 0)
    ELSE Duration("ok", value.value * factor)

\* parse_duration that reads every unit as seconds
parse_duration_all_seconds(duration_str_) ==
    IF duration_str_ = <<>> THEN Duration("ValueError", 0)
    ELSE LET unit == Last(duration_str_)
             value == float(Prefix(duration_str_))
         IN IF value.raises # "None" THEN Duration(value.raises, 0)
            ELSE IF unit \in {"s", "m", "h"} THEN timedelta(value, 1)
            ELSE Duration("ValueError", 0)

\* parse_duration(duration_str): the timedelta in seconds, or what it raises
parse_duration(duration_str_) ==
    IF duration_str_ = <<>> THEN Duration("ValueError", 0)
    ELSE LET unit == Last(duration_str_)
             value == float(Prefix(duration_str_))
         IN IF value.raises # "None" THEN Duration(value.raises, 0)
            ELSE IF unit = "s" THEN timedelta(value, 1)
            ELSE IF unit = "m" THEN timedelta(value, 60)
            ELSE IF unit = "h" THEN timedelta(value, 3600)
            ELSE Duration("ValueError", 0)

\* the string v is the value of the field f of a definition under admission
DurationStart(v, f) ==
    /\ duration_str = v
    /\ field = f
    /\ schema_result = "none"
    /\ parsed = Duration("none", 0)

\* the field validator of the schema runs on the string
SchemaValidate ==
    /\ schema_result = "none"
    /\ schema_result' = IF field = "interval" THEN validate_interval(duration_str)
                        ELSE validate_timeout(duration_str)
    /\ UNCHANGED <<duration_str, field, parsed, not_dur>>

\* parse_duration runs on the string
ParseDuration ==
    /\ parsed.status = "none"
    /\ parsed' = parse_duration(duration_str)
    /\ UNCHANGED <<duration_str, field, schema_result, not_dur>>

----------------------------------------------------------------------------
(* WorkflowEngineWorkflow.run *)

all_task_ids == task_ids_of(workflow_def.tasks)

Ids(tasks) == [i \in DOMAIN tasks |-> tasks[i].id]

\* errors: the raw error a handler failed with, the wrapper run() raises for a
\* failed member of a concurrent batch, and the blocked-by-failure error
ActivityError(t) == [kind |-> "ActivityError", task |-> t]
TaskFailed(t) == [kind |-> "TaskFailed", task |-> t]
BlockedByFailure == [kind |-> "BlockedByFailure", task |-> 0]
CompensationError(t) == [kind |-> "CompensationError", task |-> t]

\* errors of a cancelled run: the failure of a dispatch that was cancelled, which
\* is an Exception, and asyncio.CancelledError, which is none
ActivityCancelled(t) == [kind |-> "ActivityCancelled", task |-> t]
CancelledError == [kind |-> "CancelledError", task |-> 0]

\* the result a task's handler returns
ResultOf(t) == [task |-> t]

\* _get_ready_tasks with any() for all()
get_ready_tasks_any(tasks, completed) ==
    SelectSeq(tasks, LAMBDA task :
        /\ task.id \notin completed
        /\ \/ task.depends_on = {}
           \/ \E dep \in task.depends_on : dep \in completed)

\* _get_ready_tasks without the test of the dependencies' completion
get_ready_tasks_roots(tasks, completed) ==
    SelectSeq(tasks, LAMBDA task :
        /\ task.id \notin completed
        /\ task.depends_on = {})

\* _get_ready_tasks without any test of the dependencies
get_ready_tasks_uncompleted(tasks, completed) ==
    SelectSeq(tasks, LAMBDA task : task.id \notin completed)

\* _get_ready_tasks without the test "task.id in completed_task_ids"
get_ready_tasks_completed_too(tasks, completed) ==
    SelectSeq(tasks, LAMBDA task :
        \/ task.depends_on = {}
        \/ \A dep \in task.depends_on : dep \in completed)

\* _get_ready_tasks(tasks, completed_task_ids)
get_ready_tasks(tasks, completed) ==
    SelectSeq(tasks, LAMBDA task :
        /\ task.id \notin completed
        /\ \/ task.depends_on = {}
           \/ \A dep \in task.depends_on : dep \in completed)

RECURSIVE SetItems(_, _)
SetItems(d, ids) ==
    IF ids = <<>> THEN d
    ELSE SetItems(SetItem(d, Head(ids), ResultOf(Head(ids))), Tail(ids))

\* WorkflowEngineWorkflow.__init__ and the head of run() (lines 38-64) for the
\* definition w
RunStart(w) ==
    /\ workflow_def = w
    /\ pc = "schedule"
    /\ completed_task_ids = {}
    /\ ready_tasks = <<>>
    /\ task_results = <<>>
    /\ failed_tasks = <<>>
    /\ completed_tasks_order = <<>>
    /\ task_definitions = [id \in task_ids_of(workflow_def.tasks) |->
            workflow_def.tasks[CHOOSE i \in DOMAIN workflow_def.tasks :
                                   workflow_def.tasks[i].id = id]]
    /\ workflow_status = "COMPLETED"
    /\ workflow_error = NoError
    /\ exc = NoError
    /\ raised = NoError
    /\ workflow_result = NoResult
    /\ reported = <<>>
    /\ comp_pos = 0
    /\ compensation_calls = 0
    /\ activity_state = [t \in TaskIds |-> "none"]
    /\ resolution_order = <<>>
    /\ batches = <<>>
    /\ comp_log = <<>>
    /\ comp_state = [t \in TaskIds |-> "none"]
    /\ dispatched_as = [t \in TaskIds |-> "none"]
    /\ cancellation = "none"

\* "except Exception as e": lines 111-115 up to the await of _run_compensations
EnterExcept(e) ==
    /\ workflow_status' = "FAILED"
    /\ workflow_error' = e
    /\ exc' = e
    /\ comp_pos' = 0
    /\ compensation_calls' = compensation_calls + 1
    /\ pc' = "compensate"

\* the loop was left without an error and _run_compensations is called all the same
ReturnCompleted_compensates ==
    /\ workflow_result' = [status |-> "completed", task_results |-> task_results]
    /\ compensation_calls' = compensation_calls + 1
    /\ pc' = "compensate"
    /\ UNCHANGED <<workflow_status, workflow_error, exc, comp_pos>>

\* lines 104-109: the loop was left without an error
ReturnCompleted ==
    /\ workflow_result' = [status |-> "completed", task_results |-> task_results]
    /\ pc' = "finally"
    /\ UNCHANGED <<workflow_status, workflow_error, exc, comp_pos, compensation_calls>>

\* _execute_task_with_retry, lines 183-202: what execute_activity is given, the
\* registered function or, when the type is not registered, the type's name
execute_activity_target(task) ==
    IF has(task.activity_type) THEN "function" ELSE "name"

\* one iteration of the while loop that finds ready tasks and dispatches them
\* (lines 67-69, 80-84 / 90-94): the run then waits for the dispatches
DispatchReady ==
    /\ pc = "schedule"
    /\ Cardinality(completed_task_ids) < Cardinality(all_task_ids)
    /\ LET ready == get_ready_tasks(workflow_def.tasks, completed_task_ids)
       IN /\ ready # <<>>
          /\ ready_tasks' = ready
          /\ batches' = Append(batches, Ids(ready))
          /\ activity_state' = [t \in TaskIds |->
                IF t \in Range(Ids(ready)) THEN "pending" ELSE activity_state[t]]
          /\ dispatched_as' = [t \in TaskIds |->
                IF t \in Range(Ids(ready)) THEN execute_activity_target(task_definitions[t])
                ELSE dispatched_as[t]]
    /\ pc' = "await"
    /\ UNCHANGED <<not_run, cancellation, compensation_calls, workflow_def, completed_task_ids, task_results, failed_tasks,
                   completed_tasks_order, task_definitions, workflow_status,
                   workflow_error, exc, raised, workflow_result, reported, comp_pos,
                   resolution_order, comp_log, comp_state>>

\* the loop ends: its condition is false (line 67), or no task is ready (71-78)
LoopExit ==
    /\ pc = "schedule"
    /\ LET more == Cardinality(completed_task_ids) < Cardinality(all_task_ids)
           ready == get_ready_tasks(workflow_def.tasks, completed_task_ids)
           remaining == all_task_ids \ completed_task_ids
           failed_remaining == {tid \in remaining : tid \in DOMAIN failed_tasks}
       IN /\ (~more \/ ready = <<>>)
          /\ IF more /\ failed_remaining # {}
             THEN EnterExcept(BlockedByFailure) /\ UNCHANGED workflow_result
             ELSE ReturnCompleted
    /\ UNCHANGED <<not_run, cancellation, dispatched_as, workflow_def, completed_task_ids, ready_tasks, task_results,
                   failed_tasks, completed_tasks_order, task_definitions, raised,
                   reported, activity_state, resolution_order, batches, comp_log,
                   comp_state>>

\* the dispatch substrate resolves one pending task dispatch, with a result or
\* (retries exhausted) with an error
ActivityResolves(t, outcome) ==
    /\ pc = "await"
    /\ activity_state[t] = "pending"
    /\ activity_state' = [activity_state EXCEPT ![t] = outcome]
    /\ resolution_order' = Append(resolution_order, t)
    /\ UNCHANGED <<not_run, cancellation, dispatched_as, compensation_calls, workflow_def, pc, completed_task_ids, ready_tasks, task_results,
                   failed_tasks, completed_tasks_order, task_definitions,
                   workflow_status, workflow_error, exc, raised, workflow_result,
                   reported, comp_pos, batches, comp_log, comp_state>>

ActivitySucceeds == \E t \in TaskIds : ActivityResolves(t, "ok")
ActivityFails == \E t \in TaskIds : ActivityResolves(t, "err")

\* a gather that returns as soon as one member has resolved
AllResolved_first ==
    \E i \in DOMAIN ready_tasks : activity_state[ready_tasks[i].id] \in {"ok", "err"}

\* asyncio.gather(..., return_exceptions=True) and the single await return when
\* every dispatch of the iteration has resolved
AllResolved ==
    \A i \in DOMAIN ready_tasks : activity_state[ready_tasks[i].id] \in {"ok", "err"}

\* lines 83-87: the awaited single dispatch returned or raised
ResumeSequential ==
    /\ pc = "await"
    /\ Len(ready_tasks) = 1
    /\ AllResolved
    /\ LET task == ready_tasks[1] IN
       IF activity_state[task.id] = "ok"
       THEN /\ task_results' = SetItem(task_results, task.id, ResultOf(task.id))
            /\ completed_task_ids' = completed_task_ids \cup {task.id}
            /\ completed_tasks_order' = Append(completed_tasks_order, task.id)
            /\ pc' = "schedule"
            /\ UNCHANGED <<workflow_status, workflow_error, exc, comp_pos, compensation_calls>>
       ELSE /\ EnterExcept(ActivityError(task.id))
            /\ UNCHANGED <<task_results, completed_task_ids, completed_tasks_order>>
    /\ UNCHANGED <<not_run, cancellation, dispatched_as, workflow_def, ready_tasks, failed_tasks, task_definitions, raised,
                   workflow_result, reported, activity_state, resolution_order,
                   batches, comp_log, comp_state>>

\* results scanned without the isinstance(result, Exception) test
FirstFailure_ignored(tasks_to_run) == 0

\* position in tasks_to_run of the first exception in results, 0 when there is none
FirstFailure(tasks_to_run) ==
    LET bad == {i \in DOMAIN tasks_to_run : activity_state[tasks_to_run[i].id] = "err"}
    IN IF bad = {} THEN 0 ELSE CHOOSE i \in bad : \A j \in bad : i <= j

\* the zip loop recording the failed task too before it raises
recorded_with_failed(tasks_to_run) ==
    LET f == FirstFailure(tasks_to_run)
        upto == IF f = 0 THEN Len(tasks_to_run) ELSE f
    IN Ids(SubSeq(tasks_to_run, 1, upto))

\* the tasks the loop "for task, result in zip(tasks_to_run, results)" records as
\* completed before it ends or raises, in the order it records them
recorded(tasks_to_run) ==
    LET f == FirstFailure(tasks_to_run)
        upto == IF f = 0 THEN Len(tasks_to_run) ELSE f - 1
    IN Ids(SubSeq(tasks_to_run, 1, upto))

RECURSIVE SetErrors(_, _)
SetErrors(d, ids) ==
    IF ids = <<>> THEN d
    ELSE SetErrors(SetItem(d, Head(ids), ActivityError(Head(ids))), Tail(ids))

\* a zip loop that records every failed member of the batch before it raises
ResumeBatch_records_all ==
    /\ pc = "await"
    /\ Len(ready_tasks) > 1
    /\ AllResolved
    /\ LET done == recorded(ready_tasks)
           f == FirstFailure(ready_tasks)
           failed == SelectSeq(Ids(ready_tasks), LAMBDA t : activity_state[t] = "err")
       IN /\ task_results' = SetItems(task_results, done)
          /\ completed_task_ids' = completed_task_ids \cup Range(done)
          /\ completed_tasks_order' = completed_tasks_order \o done
          /\ IF f = 0
             THEN /\ pc' = "schedule"
                  /\ UNCHANGED <<failed_tasks, workflow_status, workflow_error, exc,
                                 comp_pos, compensation_calls>>
             ELSE /\ failed_tasks' = SetErrors(failed_tasks, failed)
                  /\ EnterExcept(TaskFailed(ready_tasks[f].id))
    /\ UNCHANGED <<not_run, cancellation, dispatched_as, workflow_def, ready_tasks, task_definitions, raised,
                   workflow_result, reported, activity_state, resolution_order,
                   batches, comp_log, comp_state>>

\* lines 91-102: asyncio.gather(..., return_exceptions=True) returned
ResumeBatch ==
    /\ pc = "await"
    /\ Len(ready_tasks) > 1
    /\ AllResolved
    /\ LET done == recorded(ready_tasks)
           f == FirstFailure(ready_tasks)
       IN /\ task_results' = SetItems(task_results, done)
          /\ completed_task_ids' = completed_task_ids \cup Range(done)
          /\ completed_tasks_order' = completed_tasks_order \o done
          /\ IF f = 0
             THEN /\ pc' = "schedule"
                  /\ UNCHANGED <<failed_tasks, workflow_status, workflow_error, exc,
                                 comp_pos, compensation_calls>>
             ELSE /\ failed_tasks' = SetItem(failed_tasks, ready_tasks[f].id,
                                             ActivityError(ready_tasks[f].id))
                  /\ EnterExcept(TaskFailed(ready_tasks[f].id))
    /\ UNCHANGED <<not_run, cancellation, dispatched_as, workflow_def, ready_tasks, task_definitions, raised,
                   workflow_result, reported, activity_state, resolution_order,
                   batches, comp_log, comp_state>>

----------------------------------------------------------------------------
(* Cancellation of the run: WorkflowService.cancel_execution calls
   cancel_workflow (handle.cancel()); run() has no code for it, the dispatch
   substrate delivers it at the await the run stands at *)

\* cancel_workflow: handle.cancel() asks for the cancellation of the run
CancelWorkflow ==
    /\ cancellation = "none"
    /\ pc \in {"schedule", "await"}
    /\ cancellation' = "requested"
    /\ UNCHANGED <<not_run, dispatched_as, compensation_calls, workflow_def, pc,
                   completed_task_ids, ready_tasks, task_results, failed_tasks,
                   completed_tasks_order, task_definitions, workflow_status,
                   workflow_error, exc, raised, workflow_result, reported, comp_pos,
                   activity_state, resolution_order, batches, comp_log, comp_state>>

\* the dispatches of the iteration that have not resolved are cancelled
CancelPending ==
    activity_state' = [t \in TaskIds |->
        IF activity_state[t] = "pending" THEN "cancelled" ELSE activity_state[t]]

\* an error that is no Exception leaves run() through the finally block only
\* (the except of line 111 does not apply)
SkipExcept(e) ==
    /\ exc' = e
    /\ pc' = "finally"
    /\ UNCHANGED <<workflow_status, workflow_error, comp_pos, compensation_calls>>

\* line 84: the cancellation reaches the run at the await of a single dispatch.
\* The await raises the failure of the cancelled dispatch, which the except of
\* line 111 handles as any failure, or it raises asyncio.CancelledError.
DeliverCancelSequential ==
    /\ pc = "await"
    /\ cancellation = "requested"
    /\ Len(ready_tasks) = 1
    /\ activity_state[ready_tasks[1].id] = "pending"
    /\ cancellation' = "delivered"
    /\ CancelPending
    /\ \/ EnterExcept(ActivityCancelled(ready_tasks[1].id))
       \/ SkipExcept(CancelledError)
    /\ UNCHANGED <<not_run, dispatched_as, workflow_def, completed_task_ids,
                   ready_tasks, task_results, failed_tasks, completed_tasks_order,
                   task_definitions, raised, workflow_result, reported,
                   resolution_order, batches, comp_log, comp_state>>

\* lines 91-94: the cancellation reaches the run at the await of asyncio.gather,
\* which cancels its members and raises asyncio.CancelledError whatever
\* return_exceptions is
DeliverCancelBatch ==
    /\ pc = "await"
    /\ cancellation = "requested"
    /\ Len(ready_tasks) > 1
    /\ cancellation' = "delivered"
    /\ CancelPending
    /\ SkipExcept(CancelledError)
    /\ UNCHANGED <<not_run, dispatched_as, workflow_def, completed_task_ids,
                   ready_tasks, task_results, failed_tasks, completed_tasks_order,
                   task_definitions, raised, workflow_result, reported,
                   resolution_order, batches, comp_log, comp_state>>

----------------------------------------------------------------------------
(* WorkflowEngineWorkflow._run_compensations and _execute_compensation *)

\* the next position after pos in rev whose task has a definition with a
\* compensation (lines 304-309), 0 when the loop runs out
next_compensable(rev, pos) ==
    LET cand == {j \in DOMAIN rev :
                    /\ j > pos
                    /\ rev[j] \in DOMAIN task_definitions
                    /\ task_definitions[rev[j]].compensation}
    IN IF cand = {} THEN 0 ELSE CHOOSE j \in cand : \A k \in cand : j <= k

\* lines 304-311 and 262-281: the loop reaches a task with a compensation and
\* dispatches compensate_<task id>
DispatchCompensation ==
    /\ pc = "compensate"
    /\ LET rev == reversed(completed_tasks_order)
           j == next_compensable(rev, comp_pos)
       IN /\ j # 0
          /\ comp_log' = Append(comp_log, rev[j])
          /\ comp_state' = [comp_state EXCEPT ![rev[j]] = "pending"]
          /\ comp_pos' = j
    /\ pc' = "await_compensation"
    /\ UNCHANGED <<not_run, cancellation, dispatched_as, compensation_calls, workflow_def, completed_task_ids, ready_tasks, task_results,
                   failed_tasks, completed_tasks_order, task_definitions,
                   workflow_status, workflow_error, exc, raised, workflow_result,
                   reported, activity_state, resolution_order, batches>>

\* a _run_compensations that clears task_results when it is done
CompensationsDone_clears ==
    /\ pc = "compensate"
    /\ next_compensable(reversed(completed_tasks_order), comp_pos) = 0
    /\ comp_pos' = Len(completed_tasks_order)
    /\ task_results' = <<>>
    /\ pc' = "finally"
    /\ UNCHANGED <<not_run, cancellation, dispatched_as, compensation_calls, workflow_def, completed_task_ids, ready_tasks,
                   failed_tasks, completed_tasks_order, task_definitions,
                   workflow_status, workflow_error, exc, raised, workflow_result,
                   reported, activity_state, resolution_order, batches, comp_log,
                   comp_state>>

\* lines 300-301 and the end of the for loop: _run_compensations returns
CompensationsDone ==
    /\ pc = "compensate"
    /\ next_compensable(reversed(completed_tasks_order), comp_pos) = 0
    /\ comp_pos' = Len(completed_tasks_order)
    /\ pc' = "finally"
    /\ UNCHANGED <<not_run, cancellation, dispatched_as, compensation_calls, workflow_def, completed_task_ids, ready_tasks, task_results,
                   failed_tasks, completed_tasks_order, task_definitions,
                   workflow_status, workflow_error, exc, raised, workflow_result,
                   reported, activity_state, resolution_order, batches, comp_log,
                   comp_state>>

\* the task whose compensation dispatch is awaited
CompensatedTask == reversed(completed_tasks_order)[comp_pos]

\* the compensation dispatch returned: the for loop goes on
CompensationSucceeds ==
    /\ pc = "await_compensation"
    /\ comp_state' = [comp_state EXCEPT ![CompensatedTask] = "ok"]
    /\ pc' = "compensate"
    /\ UNCHANGED <<not_run, cancellation, dispatched_as, compensation_calls, workflow_def, completed_task_ids, ready_tasks, task_results,
                   failed_tasks, completed_tasks_order, task_definitions,
                   workflow_status, workflow_error, exc, raised, workflow_result,
                   reported, comp_pos, activity_state, resolution_order, batches,
                   comp_log>>

\* a compensation failure that ends the for loop of _run_compensations
CompensationFails_aborts ==
    /\ pc = "await_compensation"
    /\ comp_state' = [comp_state EXCEPT ![CompensatedTask] = "err"]
    /\ comp_pos' = Len(completed_tasks_order)
    /\ pc' = "finally"
    /\ UNCHANGED <<not_run, cancellation, dispatched_as, compensation_calls, workflow_def, completed_task_ids, ready_tasks, task_results,
                   failed_tasks, completed_tasks_order, task_definitions,
                   workflow_status, workflow_error, exc, raised, workflow_result,
                   reported, activity_state, resolution_order, batches, comp_log>>

\* a compensation failure that leaves _run_compensations as an exception
CompensationFails_propagates ==
    /\ pc = "await_compensation"
    /\ comp_state' = [comp_state EXCEPT ![CompensatedTask] = "err"]
    /\ exc' = CompensationError(CompensatedTask)
    /\ pc' = "finally"
    /\ UNCHANGED <<not_run, cancellation, dispatched_as, compensation_calls, workflow_def, completed_task_ids, ready_tasks, task_results,
                   failed_tasks, completed_tasks_order, task_definitions,
                   workflow_status, workflow_error, raised, workflow_result,
                   reported, comp_pos, activity_state, resolution_order, batches,
                   comp_log>>

\* the compensation dispatch raised: _execute_compensation logs and re-raises
\* (282-287), _run_compensations logs and goes on with the for loop (312-317)
CompensationFails ==
    /\ pc = "await_compensation"
    /\ comp_state' = [comp_state EXCEPT ![CompensatedTask] = "err"]
    /\ pc' = "compensate"
    /\ UNCHANGED <<not_run, cancellation, dispatched_as, compensation_calls, workflow_def, completed_task_ids, ready_tasks, task_results,
                   failed_tasks, completed_tasks_order, task_definitions,
                   workflow_status, workflow_error, exc, raised, workflow_result,
                   reported, comp_pos, activity_state, resolution_order, batches,
                   comp_log>>

\* lines 117-130: the finally block reports workflow_status, then run() returns
\* workflow_result or the exception handled by the except block propagates
Finally ==
    /\ pc = "finally"
    /\ reported' = Append(reported, workflow_status)
    /\ raised' = exc
    /\ pc' = IF exc = NoError THEN "returned" ELSE "raised"
    /\ UNCHANGED <<not_run, cancellation, dispatched_as, compensation_calls, workflow_def, completed_task_ids, ready_tasks, task_results,
                   failed_tasks, completed_tasks_order, task_definitions,
                   workflow_status, workflow_error, exc, workflow_result, comp_pos,
                   activity_state, resolution_order, batches, comp_log, comp_state>>

----------------------------------------------------------------------------
(* WorkflowStateMachine (core/state_machine.py) and a caller holding the list
   that get_transitions returned *)

\* Largest number of records in the machine's transition history.
MaxTransitions == 4

WorkflowState == {"PENDING", "RUNNING", "COMPLETED", "FAILED", "CANCELLED"}

\* a table in which a completed workflow may be run again
VALID_TRANSITIONS_rerun ==
    [s \in WorkflowState |->
        CASE s = "PENDING" -> <<"RUNNING", "CANCELLED">>
          [] s = "RUNNING" -> <<"COMPLETED", "FAILED", "CANCELLED">>
          [] s = "COMPLETED" -> <<"RUNNING">>
          [] s = "FAILED" -> <<"RUNNING">>
          [] s = "CANCELLED" -> <<>>]

\* WorkflowStateMachine.VALID_TRANSITIONS
VALID_TRANSITIONS ==
    [s \in WorkflowState |->
        CASE s = "PENDING" -> <<"RUNNING", "CANCELLED">>
          [] s = "RUNNING" -> <<"COMPLETED", "FAILED", "CANCELLED">>
          [] s = "COMPLETED" -> <<>>
          [] s = "FAILED" -> <<"RUNNING">>
          [] s = "CANCELLED" -> <<>>]

\* StateTransition(from_state, to_state); the timestamp is left out
StateTransition(from_state, to_state) == [from_state |-> from_state, to_state |-> to_state]

\* self.transitions
transitions == lists["machine"]

\* WorkflowStateMachine.__init__(initial_state), no list handed out yet
MachineInit(state) ==
    /\ initial_state = state
    /\ current_state = state
    /\ lists = [l \in {"machine", "caller"} |-> <<>>]
    /\ returned_ref = "none"
    /\ sm_call = [op |-> "init", to_state |-> state, result |-> TRUE]
    /\ accepted_calls = <<>>

\* can_transition that allows every target
can_transition_any(to_state) == TRUE

\* can_transition(to_state)
can_transition(to_state) == to_state \in Range(VALID_TRANSITIONS[current_state])

\* a rejected transition that still records the attempt in the history
RejectTransition_records(to_state) ==
    /\ sm_call' = [op |-> "transition", to_state |-> to_state, result |-> FALSE]
    /\ lists' = [lists EXCEPT !["machine"] =
                    Append(@, StateTransition(current_state, to_state))]
    /\ UNCHANGED <<current_state, accepted_calls>>

\* transition, lines 73-74: return False
RejectTransition(to_state) ==
    /\ sm_call' = [op |-> "transition", to_state |-> to_state, result |-> FALSE]
    /\ UNCHANGED <<current_state, lists, accepted_calls>>

\* an accepted transition that inserts its record at the front of the history
AcceptTransition_prepends(to_state) ==
    /\ lists' = [lists EXCEPT !["machine"] =
                    <<StateTransition(current_state, to_state)>> \o @]
    /\ current_state' = to_state
    /\ sm_call' = [op |-> "transition", to_state |-> to_state, result |-> TRUE]
    /\ accepted_calls' = Append(accepted_calls, to_state)

\* transition, lines 76-79: record, change state, return True
AcceptTransition(to_state) ==
    /\ lists' = [lists EXCEPT !["machine"] =
                    Append(@, StateTransition(current_state, to_state))]
    /\ current_state' = to_state
    /\ sm_call' = [op |-> "transition", to_state |-> to_state, result |-> TRUE]
    /\ accepted_calls' = Append(accepted_calls, to_state)

\* transition(to_state)
Transition(to_state) ==
    /\ can_transition(to_state) => Len(transitions) < MaxTransitions
    /\ IF ~can_transition(to_state)
       THEN RejectTransition(to_state)
       ELSE AcceptTransition(to_state)
    /\ UNCHANGED <<initial_state, returned_ref, not_sm>>

TransitionCall == \E to_state \in WorkflowState : Transition(to_state)

\* get_transitions returning self.transitions itself
GetTransitions_alias ==
    /\ returned_ref' = "machine"
    /\ sm_call' = [op |-> "get_transitions", to_state |-> current_state, result |-> TRUE]
    /\ UNCHANGED <<initial_state, current_state, lists, accepted_calls, not_sm>>

\* get_transitions(): self.transitions.copy(), a new list object
GetTransitions ==
    /\ lists' = [lists EXCEPT !["caller"] = lists["machine"]]
    /\ returned_ref' = "caller"
    /\ sm_call' = [op |-> "get_transitions", to_state |-> current_state, result |-> TRUE]
    /\ UNCHANGED <<initial_state, current_state, accepted_calls, not_sm>>

\* the caller changes the list object it holds to new_list
CallerMutates(op, new_list) ==
    /\ returned_ref # "none"
    /\ lists' = [lists EXCEPT ![returned_ref] = new_list]
    /\ sm_call' = [op |-> op, to_state |-> current_state, result |-> TRUE]
    /\ UNCHANGED <<initial_state, current_state, returned_ref, accepted_calls, not_sm>>

\* a record no transition call made
ForeignRecord == StateTransition("COMPLETED", "PENDING")

\* returned.append(record)
CallerAppends ==
    /\ returned_ref # "none"
    /\ Len(lists[returned_ref]) <= MaxTransitions
    /\ CallerMutates("append", Append(lists[returned_ref], ForeignRecord))

\* returned.pop(0)
CallerRemoves ==
    /\ returned_ref # "none"
    /\ lists[returned_ref] # <<>>
    /\ CallerMutates("remove", Tail(lists[returned_ref]))

\* returned.reverse()
CallerReorders ==
    /\ returned_ref # "none"
    /\ Len(lists[returned_ref]) >= 2
    /\ CallerMutates("reverse", reversed(lists[returned_ref]))

----------------------------------------------------------------------------
(* WorkflowService.execute_workflow and cancel_execution (api/services.py), the
   execution repository, and the update_execution_status activity
   (core/activities/base.py). A call of the repository (create, update,
   update_status) is a write to the persistence layer; a step is what a handler
   does between two awaits. *)

\* Largest number of calls of cancel_execution.
MaxCancelCalls == 2

\* a WorkflowExecution: its status, who set completed_at ("None" when it is not
\* set) and whether temporal_workflow_id is set
Execution(status, completed_at, temporal_workflow_id) ==
    [status |-> status, completed_at |-> completed_at,
     temporal_workflow_id |-> temporal_workflow_id]

\* get_by_id found no execution
NoExecution == Execution("None", "None", FALSE)

\* the repository holds e, execute_workflow stands at p, and cancel_execution
\* has not been called
ServiceStart(e, p) ==
    /\ execution = e
    /\ execute_pc = p
    /\ cancel_pc = "idle"
    /\ cancel_id = "none"
    /\ cancel_seen = "None"
    /\ cancel_result = "none"
    /\ cancel_calls = 0
    /\ updates_applied = 0

\* ExecutionRepository.get_by_id(execution_id)
get_by_id(execution_id) ==
    IF execution_id = "known" THEN execution ELSE NoExecution

\* ExecutionRepository.update_status(execution_id, status, ...) on the execution e
update_status(e, status) == [e EXCEPT !.status = status]

\* execute_workflow, lines 145-154: the execution is created with status PENDING
CreateExecution ==
    /\ execute_pc = "idle"
    /\ execution' = Execution("PENDING", "None", FALSE)
    /\ execute_pc' = "start_workflow"
    /\ UNCHANGED <<cancel_pc, cancel_id, cancel_seen, cancel_result, cancel_calls,
                   updates_applied, run_vars, not_svc>>

\* execute_workflow, lines 158-164: start_workflow returned, the run is under way
StartWorkflow ==
    /\ execute_pc = "start_workflow"
    /\ execute_pc' = "update"
    /\ UNCHANGED <<execution, cancel_pc, cancel_id, cancel_seen, cancel_result,
                   cancel_calls, updates_applied, run_vars, not_svc>>

\* execute_workflow, lines 166-170: the execution is updated to RUNNING
RecordRunning ==
    /\ execute_pc = "update"
    /\ execution' = [execution EXCEPT !.status = "RUNNING",
                                      !.temporal_workflow_id = TRUE]
    /\ execute_pc' = "returned"
    /\ UNCHANGED <<cancel_pc, cancel_id, cancel_seen, cancel_result, cancel_calls,
                   updates_applied, run_vars, not_svc>>

\* execute_workflow, lines 171-176: start_workflow raised, the execution is
\* updated to FAILED and ValueError is raised
StartWorkflowFails ==
    /\ execute_pc = "start_workflow"
    /\ execution' = [execution EXCEPT !.status = "FAILED",
                                      !.completed_at = "execute_workflow"]
    /\ execute_pc' = "raised"
    /\ UNCHANGED <<cancel_pc, cancel_id, cancel_seen, cancel_result, cancel_calls,
                   updates_applied, run_vars, not_svc>>

\* the workflow was started by execute_workflow
WorkflowStarted == execute_pc \in {"update", "returned"}

\* how cancel_execution goes on after get_by_id gave it found, without the test
\* of the status
after_get_by_id_unchecked(found) ==
    IF found = NoExecution THEN [pc |-> "idle", result |-> "None"]
    ELSE IF found.temporal_workflow_id
    THEN [pc |-> "cancel_workflow", result |-> "none"]
    ELSE [pc |-> "update", result |-> "none"]

\* how cancel_execution goes on after get_by_id gave it found (lines 199-205):
\* it returns None, raises "Cannot cancel execution in status", calls
\* cancel_workflow, or goes to the update
after_get_by_id(found) ==
    IF found = NoExecution THEN [pc |-> "idle", result |-> "None"]
    ELSE IF found.status \notin {"PENDING", "RUNNING"}
    THEN [pc |-> "idle", result |-> "CannotCancel"]
    ELSE IF found.temporal_workflow_id
    THEN [pc |-> "cancel_workflow", result |-> "none"]
    ELSE [pc |-> "update", result |-> "none"]

\* cancel_execution(execution_id), lines 198-205
CancelExecutionCall(execution_id) ==
    /\ cancel_pc = "idle"
    /\ cancel_calls < MaxCancelCalls
    /\ LET found == get_by_id(execution_id)
           next == after_get_by_id(found)
       IN /\ cancel_seen' = found.status
          /\ cancel_pc' = next.pc
          /\ cancel_result' = next.result
    /\ cancel_id' = execution_id
    /\ cancel_calls' = cancel_calls + 1
    /\ UNCHANGED <<execution, execute_pc, updates_applied, run_vars, not_svc>>

CancelExecution == \E execution_id \in {"known", "unknown"} : CancelExecutionCall(execution_id)

\* cancel_execution, line 207: cancel_workflow returned; a run that schedules or
\* awaits has its cancellation requested
CancelWorkflowReturns ==
    /\ cancel_pc = "cancel_workflow"
    /\ cancel_pc' = "update"
    /\ cancellation' = IF cancellation = "none" /\ pc \in {"schedule", "await"}
                       THEN "requested" ELSE cancellation
    /\ UNCHANGED <<execution, execute_pc, cancel_id, cancel_seen, cancel_result,
                   cancel_calls, updates_applied, not_svc, dispatched_as,
                   compensation_calls, workflow_def, pc, completed_task_ids,
                   ready_tasks, task_results, failed_tasks, completed_tasks_order,
                   task_definitions, workflow_status, workflow_error, exc, raised,
                   workflow_result, reported, comp_pos, activity_state,
                   resolution_order, batches, comp_log, comp_state>>

\* cancel_execution, lines 208-209: cancel_workflow raised, ValueError is raised
CancelWorkflowRaises ==
    /\ cancel_pc = "cancel_workflow"
    /\ cancel_pc' = "idle"
    /\ cancel_result' = "FailedToCancel"
    /\ UNCHANGED <<execution, execute_pc, cancel_id, cancel_seen, cancel_calls,
                   updates_applied, run_vars, not_svc>>

\* cancel_execution, lines 211-213: the execution is updated to CANCELLED
CancelExecutionUpdate ==
    /\ cancel_pc = "update"
    /\ execution' = [execution EXCEPT !.status = "CANCELLED",
                                      !.completed_at = "cancel_execution"]
    /\ cancel_pc' = "idle"
    /\ cancel_result' = "execution"
    /\ UNCHANGED <<execute_pc, cancel_id, cancel_seen, cancel_calls,
                   updates_applied, run_vars, not_svc>>

\* update_execution_status_activity (base.py 264-329) carries out the status
\* update the finally block of run() asked for: update_status, then completed_at
\* when it is not set
UpdateExecutionStatusActivity ==
    /\ updates_applied < Len(reported)
    /\ execution # NoExecution
    /\ LET updated == update_status(execution, reported[updates_applied + 1])
       IN execution' = [updated EXCEPT !.completed_at =
                           IF @ = "None" THEN "update_execution_status" ELSE @]
    /\ updates_applied' = updates_applied + 1
    /\ UNCHANGED <<execute_pc, cancel_pc, cancel_id, cancel_seen, cancel_result,
                   cancel_calls, run_vars, not_svc>>

\* a step of the run of the workflow that execute_workflow started
WorkflowStep ==
    /\ WorkflowStarted
    /\ \/ DispatchReady
       \/ LoopExit
       \/ ActivitySucceeds
       \/ ActivityFails
       \/ ResumeSequential
       \/ CompensationsDone
       \/ Finally
       \/ DeliverCancelSequential

----------------------------------------------------------------------------
(* Specifications *)

\* the one-task definition of the specifications that are not about a run
OneTask == Definition(1, [i \in 1..1 |-> {}], {})

\* nothing is submitted for admission but the one-task definition
AdmissionIdle == AdmissionStart(Submission(1, [i \in 1..1 |-> {}], 0))

\* no duration string is under way but "1s"
DurationIdle == DurationStart(<<"1", "s">>, "interval")

\* execute_workflow has returned: the execution of the run is RUNNING
ServiceIdle == ServiceStart(Execution("RUNNING", "None", TRUE), "returned")

\* a run of an admitted definition; the state machine is constructed and idle
Init ==
    /\ \E n \in 1..NumTasks : \E d \in RawDependencies(n) :
          /\ Admitted(Definition(n, d, {}))
          /\ \E c \in SUBSET (1..n) : RunStart(Definition(n, d, c))
    /\ MachineInit("PENDING")
    /\ AdmissionIdle
    /\ Registered(TaskIds)
    /\ DurationIdle
    /\ ServiceIdle

Next ==
    \/ DispatchReady
    \/ LoopExit
    \/ ActivitySucceeds
    \/ ActivityFails
    \/ ResumeSequential
    \/ ResumeBatch
    \/ DispatchCompensation
    \/ CompensationsDone
    \/ CompensationSucceeds
    \/ CompensationFails
    \/ Finally

Spec == Init /\ [][Next]_vars

\* the event loop keeps running the workflow coroutine and every dispatch resolves
FairSpec == Spec /\ WF_vars(Next)

\* the steps of a run in which every task dispatch resolves with a result
NextAllSucceed ==
    \/ DispatchReady
    \/ LoopExit
    \/ ActivitySucceeds
    \/ ResumeSequential
    \/ ResumeBatch
    \/ Finally

\* runs in which every task dispatch eventually resolves and succeeds
AllSucceedSpec == Init /\ [][NextAllSucceed]_vars /\ WF_vars(NextAllSucceed)

\* a state machine constructed in any state; the run is of a one-task definition
\* and has not started
MachineSpecInit ==
    /\ RunStart(OneTask)
    /\ \E state \in WorkflowState : MachineInit(state)
    /\ AdmissionIdle
    /\ Registered(TaskIds)
    /\ DurationIdle
    /\ ServiceIdle

MachineNext ==
    \/ TransitionCall
    \/ GetTransitions
    \/ CallerAppends
    \/ CallerRemoves
    \/ CallerReorders

\* any sequence of calls on one WorkflowStateMachine
MachineSpec == MachineSpecInit /\ [][MachineNext]_vars

\* any tasks over the ids 1..n, with any depends_on over these ids and at most
\* one dependency on an id that no task has, are submitted for admission
AdmissionSpecInit ==
    /\ \E n \in 1..NumTasks : \E d \in RawDependencies(n) : \E u \in 0..n :
          AdmissionStart(Submission(n, d, u))
    /\ RunStart(OneTask)
    /\ MachineInit("PENDING")
    /\ Registered(TaskIds)
    /\ DurationIdle
    /\ ServiceIdle

AdmissionNext ==
    \/ CheckTasks
    \/ ScanRoot
    \/ ScanDone
    \/ Validate

\* one admission and one call of the validator on what was submitted
AdmissionSpec == AdmissionSpecInit /\ [][AdmissionNext]_vars

\* an empty registry
RegistrySpecInit ==
    /\ RegistryInit
    /\ RunStart(OneTask)
    /\ MachineInit("PENDING")
    /\ AdmissionIdle
    /\ DurationIdle
    /\ ServiceIdle

RegistryNext ==
    \/ RegisterCall
    \/ GetCall
    \/ HasCall

\* any sequence of calls on one ActivityRegistry
RegistrySpec == RegistrySpecInit /\ [][RegistryNext]_vars

\* a run of an admitted definition when any of its tasks' types are registered
DispatchSpecInit ==
    /\ \E n \in 1..NumTasks : \E d \in RawDependencies(n) :
          /\ Admitted(Definition(n, d, {}))
          /\ \E c \in SUBSET (1..n) : RunStart(Definition(n, d, c))
          /\ \E types \in SUBSET (1..n) : Registered(types)
    /\ MachineInit("PENDING")
    /\ AdmissionIdle
    /\ DurationIdle
    /\ ServiceIdle

DispatchSpec == DispatchSpecInit /\ [][Next]_vars

CancelNext ==
    \/ Next
    \/ CancelWorkflow
    \/ DeliverCancelSequential
    \/ DeliverCancelBatch

\* a run whose cancellation may be asked for while it schedules or awaits tasks
CancelSpec == Init /\ [][CancelNext]_vars

\* any string of at most MaxDurationLen characters is the value of a retry
\* interval or of a task timeout
DurationSpecInit ==
    /\ \E v \in Strings(MaxDurationLen) : \E f \in {"interval", "timeout"} :
          DurationStart(v, f)
    /\ RunStart(OneTask)
    /\ MachineInit("PENDING")
    /\ AdmissionIdle
    /\ Registered(TaskIds)
    /\ ServiceIdle

DurationNext ==
    \/ SchemaValidate
    \/ ParseDuration

\* one duration string through the schema's validator and through parse_duration
DurationSpec == DurationSpecInit /\ [][DurationNext]_vars

\* nothing has been executed yet; the workflow is of the one-task definition
ServiceSpecInit ==
    /\ ServiceStart(NoExecution, "idle")
    /\ RunStart(OneTask)
    /\ MachineInit("PENDING")
    /\ AdmissionIdle
    /\ Registered(TaskIds)
    /\ DurationIdle

ServiceNext ==
    \/ CreateExecution
    \/ StartWorkflow
    \/ RecordRunning
    \/ StartWorkflowFails
    \/ WorkflowStep
    \/ UpdateExecutionStatusActivity
    \/ CancelExecution
    \/ CancelWorkflowReturns
    \/ CancelWorkflowRaises
    \/ CancelExecutionUpdate

\* one call of execute_workflow, the run it starts with its final status update,
\* and calls of cancel_execution at any time
ServiceSpec == ServiceSpecInit /\ [][ServiceNext]_vars

----------------------------------------------------------------------------
(* Properties *)

Pos(s, x) == CHOOSE i \in DOMAIN s : s[i] = x
Count(s, x) == Cardinality({i \in DOMAIN s : s[i] = x})
HasCompensation(t) == t \in DOMAIN task_definitions /\ task_definitions[t].compensation
Dispatched == UNION {Range(batches[i]) : i \in DOMAIN batches}
SomeTaskFailed == \E t \in TaskIds : activity_state[t] = "err"
Resolved(st) == st \in {"ok", "err"}
Compensable == {t \in Range(completed_tasks_order) : HasCompensation(t)}

C3_AllSucceededCompensated ==
    pc = "raised" =>
        \A t \in TaskIds :
            (activity_state[t] = "ok" /\ HasCompensation(t)) => t \in Range(comp_log)

C5_OnlyCompletedCompensated ==
    /\ \A t \in Range(comp_log) :
          t \in Range(completed_tasks_order) /\ activity_state[t] = "ok"
    /\ \A t \in TaskIds :
          activity_state[t] \in {"err", "none", "pending"}
          => t \notin Range(completed_tasks_order) /\ comp_state[t] = "none"

\* B failed after A completed, both define a compensation, as does a task never
\* dispatched: only A's compensation ran
C5_Witness ==
    /\ pc = "raised"
    /\ Len(comp_log) = 1
    /\ \E t \in TaskIds : activity_state[t] = "err" /\ HasCompensation(t)
    /\ \E t \in all_task_ids : activity_state[t] = "none" /\ HasCompensation(t)

\* C6: every task dispatched has all its dependencies in the completed set, a
\* task awaited is not in the completed set, and the tasks without dependencies
\* are all ready in the first iteration.
C6_DispatchedOnlyWhenReady ==
    /\ \A t \in Dispatched : task_definitions[t].depends_on \subseteq completed_task_ids
    /\ pc = "await" =>
          \A i \in DOMAIN ready_tasks : ready_tasks[i].id \notin completed_task_ids
    /\ batches # <<>> =>
          Range(batches[1]) = {t \in all_task_ids : task_definitions[t].depends_on = {}}

\* a task with two dependencies has been dispatched in a later iteration
C6_Witness ==
    /\ Len(batches) >= 2
    /\ \E t \in Range(batches[Len(batches)]) :
          Cardinality(task_definitions[t].depends_on) = 2

SameBatch(x, y) == \E i \in DOMAIN batches : x \in Range(batches[i]) /\ y \in Range(batches[i])

\* C7: tasks of one concurrent batch appear in completed_tasks_order in the order
\* in which their dispatches resolved.
C7_BatchOrderIsResolutionOrder ==
    \A x, y \in Range(completed_tasks_order) :
        (SameBatch(x, y)
         /\ Pos(completed_tasks_order, x) < Pos(completed_tasks_order, y))
        => Pos(resolution_order, x) < Pos(resolution_order, y)

\* C8: once a task dispatch has failed no further batch is dispatched, and a run
\* with a failed dispatch ends by raising, never by returning.
C8_FailureTerminatesRun ==
    /\ [][SomeTaskFailed => batches' = batches]_vars
    /\ [](SomeTaskFailed => pc \notin {"schedule", "returned"})

\* a run failed after one batch completed, leaving a task never dispatched
C8_Witness ==
    /\ pc = "raised"
    /\ completed_tasks_order # <<>>
    /\ \E t \in all_task_ids : activity_state[t] = "none"

RunCompleted ==
    /\ pc = "returned"
    /\ raised = NoError
    /\ workflow_result.status = "completed"
    /\ DOMAIN workflow_result.task_results = all_task_ids
    /\ Len(batches) <= Len(workflow_def.tasks)

\* C9: a run of an admitted definition in which every dispatch eventually
\* resolves and succeeds eventually returns status "completed" with a result for
\* every task, after at most |tasks| iterations of the scheduling loop.
C9_AllSucceedTerminates == <>RunCompleted

\* a chain of NumTasks tasks completed in exactly NumTasks iterations
C9_Witness ==
    /\ RunCompleted
    /\ Len(batches) = NumTasks

\* C10: while tasks remain and none has failed the ready set is not empty, and a
\* run that returns has executed every task.
C10_NoStallAfterAdmission ==
    /\ (pc = "schedule" /\ completed_task_ids # all_task_ids /\ ~SomeTaskFailed)
          => get_ready_tasks(workflow_def.tasks, completed_task_ids) # <<>>
    /\ pc \in {"finally", "returned"} /\ exc = NoError =>
          /\ completed_task_ids = all_task_ids
          /\ DOMAIN task_results = all_task_ids

\* the scheduler is between two iterations with some tasks done and some left
C10_Witness ==
    /\ pc = "schedule"
    /\ completed_task_ids # {}
    /\ completed_task_ids # all_task_ids
    /\ \E t \in all_task_ids \ completed_task_ids :
          task_definitions[t].depends_on \cap completed_task_ids # {}
          /\ ~(task_definitions[t].depends_on \subseteq completed_task_ids)

IsPrefix(s, t) == Len(s) <= Len(t) /\ \A i \in DOMAIN s : s[i] = t[i]
Deps(t) == task_definitions[t].depends_on
SomePending == \E t \in TaskIds : activity_state[t] = "pending"

\* C11: a batch is dispatched only when no dispatch of an earlier batch is still
\* unresolved.
C11_BatchesDoNotOverlap == [][batches' # batches => ~SomePending]_vars

\* a batch of two tasks resolved and a later batch was dispatched
C11_Witness ==
    /\ Len(batches) >= 2
    /\ Len(batches[1]) >= 2
    /\ SomePending

\* the definition has exactly three tasks
ThreeTasks == Cardinality(DOMAIN task_definitions) = 3

\* the definition is the chain a, b after a, c after b
IsChain(a, b, c) ==
    /\ a # b /\ b # c /\ a # c
    /\ DOMAIN task_definitions = {a, b, c}
    /\ Deps(a) = {} /\ Deps(b) = {a} /\ Deps(c) = {b}

\* C12: for a chain A, B after A, C after B the ready sets dispatched are {A},
\* {B}, {C} in this order, and a run in which all succeed ends with
\* completed_tasks_order = [A, B, C].
C12_ChainRunsInOrder ==
    \A a, b, c \in IF ThreeTasks THEN DOMAIN task_definitions ELSE {} :
        IsChain(a, b, c) =>
            /\ IsPrefix(batches, << <<a>>, <<b>>, <<c>> >>)
            /\ IsPrefix(completed_tasks_order, <<a, b, c>>)
            /\ pc = "returned" =>
                  /\ batches = << <<a>>, <<b>>, <<c>> >>
                  /\ completed_tasks_order = <<a, b, c>>

\* a chain declared in the order C, B, A has run to its end
C12_Witness ==
    /\ IsChain(3, 2, 1)
    /\ pc = "returned"
    /\ completed_tasks_order = <<3, 2, 1>>

\* the definition is the fan-in of a and b (declared in this order) into c
IsFanIn(a, b, c) ==
    /\ a < b /\ b # c /\ a # c
    /\ DOMAIN task_definitions = {a, b, c}
    /\ Deps(a) = {} /\ Deps(b) = {} /\ Deps(c) = {a, b}

\* C13: for a fan-in of A and B into C the first batch is {A, B}, and C is
\* dispatched, alone in the second batch, only once A and B are both completed.
C13_FanInWaitsForBoth ==
    \A a, b, c \in IF ThreeTasks THEN DOMAIN task_definitions ELSE {} :
        IsFanIn(a, b, c) =>
            /\ batches # <<>> => batches[1] = <<a, b>>
            /\ Len(batches) <= 2
            /\ activity_state[c] # "none" =>
                  /\ batches = << <<a, b>>, <<c>> >>
                  /\ {a, b} \subseteq completed_task_ids
                  /\ {a, b} \subseteq DOMAIN task_results

\* C was dispatched after B resolved before A
C13_Witness ==
    \E a, b, c \in DOMAIN task_definitions :
        /\ IsFanIn(a, b, c)
        /\ activity_state[c] = "pending"
        /\ resolution_order = <<b, a>>

\* C14: a run that fails with completed_tasks_order empty dispatches no
\* compensation and raises the error that made it fail.
C14_NothingCompletedNoCompensation ==
    (pc \in {"compensate", "await_compensation", "finally", "raised"}
     /\ exc # NoError /\ completed_tasks_order = <<>>)
    => /\ comp_log = <<>>
       /\ pc # "await_compensation"
       /\ pc = "raised" =>
             /\ raised = workflow_error
             /\ raised.kind \in {"ActivityError", "TaskFailed"}
             /\ activity_state[raised.task] = "err"

\* a run failed with nothing completed although tasks define compensations
C14_Witness ==
    /\ pc = "raised"
    /\ completed_tasks_order = <<>>
    /\ \E t \in all_task_ids : HasCompensation(t) /\ activity_state[t] = "err"
    /\ \E t \in all_task_ids : HasCompensation(t) /\ activity_state[t] = "ok"

\* C15: _run_compensations is called once in a run that fails and never in a
\* run that returns, and after the call no task is dispatched.
C15_CompensationOncePerFailedRun ==
    /\ [](/\ compensation_calls <= 1
          /\ pc = "raised" => compensation_calls = 1
          /\ pc = "returned" => compensation_calls = 0 /\ comp_log = <<>>
          /\ compensation_calls = 0 => comp_log = <<>>)
    /\ [][compensation_calls >= 1 =>
            batches' = batches /\ activity_state' = activity_state]_vars

\* a failed run whose compensation pass dispatched compensations
C15_Witness ==
    /\ pc = "raised"
    /\ compensation_calls = 1
    /\ Len(comp_log) >= 2

----------------------------------------------------------------------------
(* Properties of the state machine *)

\* the transition table as the documentation states it
TableEdges ==
    { <<"PENDING", "RUNNING">>, <<"PENDING", "CANCELLED">>,
      <<"RUNNING", "COMPLETED">>, <<"RUNNING", "FAILED">>,
      <<"RUNNING", "CANCELLED">>, <<"FAILED", "RUNNING">> }

\* this step is a call transition(sm_call'.to_state)
TransitionCalled == sm_call'.op = "transition"

\* the history the accepted calls describe
ExpectedHistory ==
    [i \in 1..Len(accepted_calls) |->
        StateTransition(IF i = 1 THEN initial_state ELSE accepted_calls[i - 1],
                        accepted_calls[i])]

\* C16: transition(to) returns True exactly when (current state, to) is an edge
\* of the table, and every change of current_state is an edge of the table.
C16_TransitionFollowsTable ==
    /\ [][TransitionCalled =>
            (sm_call'.result <=> <<current_state, sm_call'.to_state>> \in TableEdges)]_vars
    /\ [][current_state' # current_state =>
            <<current_state, current_state'>> \in TableEdges]_vars

\* from PENDING the machine failed, was retried and completed
C16_Witness ==
    /\ initial_state = "PENDING"
    /\ current_state = "COMPLETED"
    /\ Len(transitions) = 4
    /\ sm_call = [op |-> "transition", to_state |-> "COMPLETED", result |-> TRUE]

\* C17: a transition call whose target is not allowed from the current state
\* returns False and changes neither current_state nor the history.
C17_RejectedChangesNothing ==
    [][(TransitionCalled
        /\ (<<current_state, sm_call'.to_state>> \notin TableEdges \/ ~sm_call'.result))
       => (~sm_call'.result
           /\ current_state' = current_state
           /\ transitions' = transitions
           /\ accepted_calls' = accepted_calls)]_vars

\* PENDING -> COMPLETED was rejected
C17_Witness ==
    /\ current_state = "PENDING"
    /\ transitions = <<>>
    /\ sm_call = [op |-> "transition", to_state |-> "COMPLETED", result |-> FALSE]

\* C18: in COMPLETED and CANCELLED every transition call returns False and the
\* state never changes; from FAILED the state changes only to RUNNING.
C18_TerminalStates ==
    /\ [][(current_state \in {"COMPLETED", "CANCELLED"}) =>
            (current_state' = current_state
             /\ (TransitionCalled => ~sm_call'.result))]_vars
    /\ [][(current_state = "FAILED" /\ current_state' # current_state) =>
            current_state' = "RUNNING"]_vars

\* a call was rejected in COMPLETED, after the machine had left FAILED for RUNNING
C18_Witness ==
    /\ current_state = "COMPLETED"
    /\ sm_call.op = "transition" /\ ~sm_call.result
    /\ \E i \in DOMAIN transitions :
          transitions[i] = StateTransition("FAILED", "RUNNING")

\* C19: the history holds one record per accepted call and none for a rejected
\* one, its records chain from the initial state to current_state, and a step
\* only ever appends to it.
C19_HistoryMirrorsState ==
    /\ [](/\ Len(transitions) = Len(accepted_calls)
          /\ transitions = ExpectedHistory
          /\ transitions # <<>> =>
                /\ transitions[1].from_state = initial_state
                /\ transitions[Len(transitions)].to_state = current_state
          /\ \A i \in 2..Len(transitions) :
                transitions[i].from_state = transitions[i - 1].to_state
          /\ transitions = <<>> => current_state = initial_state)
    /\ [][IsPrefix(transitions, transitions')]_vars

\* PENDING -> RUNNING -> COMPLETED, then a rejected call
C19_Witness ==
    /\ transitions = <<StateTransition("PENDING", "RUNNING"),
                       StateTransition("RUNNING", "COMPLETED")>>
    /\ sm_call.op = "transition" /\ ~sm_call.result

CallerOps == {"append", "remove", "reverse"}

\* C20: a change the caller makes to the list it got from get_transitions
\* changes neither the machine's history nor its state, and get_transitions
\* returns the whole recorded history whatever the caller did before.
C20_DefensiveCopy ==
    /\ [][sm_call'.op \in CallerOps =>
            transitions' = transitions /\ current_state' = current_state]_vars
    /\ [](sm_call.op = "get_transitions" =>
            /\ lists[returned_ref] = ExpectedHistory
            /\ transitions = ExpectedHistory)

\* the caller's list, changed by the caller, differs from the machine's history,
\* which still holds its two records
C20_Witness ==
    /\ sm_call.op \in CallerOps
    /\ Len(transitions) >= 2
    /\ transitions = ExpectedHistory
    /\ lists[returned_ref] # transitions

RECURSIVE reachable(_, _)
\* the ids reached from the ids in S along depends_on, S included
reachable(graph, S) ==
    LET next == S \cup UNION {graph_get(graph, x) : x \in S}
    IN IF next = S THEN S ELSE reachable(graph, next)

SubmittedIds == task_ids_of(submitted.tasks)
SubmittedGraph == graph_of(submitted.tasks)
AdmissionOver == adm_pc \in {"admitted", "rejected"}

\* t lies on a cycle of depends_on
OnCycle(t) == t \in reachable(SubmittedGraph, graph_get(SubmittedGraph, t))
GraphHasCycle == \E t \in SubmittedIds : OnCycle(t)

SelfDependent == {i \in DOMAIN submitted.tasks :
                     submitted.tasks[i].id \in submitted.tasks[i].depends_on}
Dangling == {i \in DOMAIN submitted.tasks :
                ~(submitted.tasks[i].depends_on \subseteq SubmittedIds)}
CycleReported == adm_pc = "rejected" /\ adm_error.error = "Circular dependency detected"

\* C21: when validate_tasks rejects a definition for a circular dependency, the
\* task its error names lies on a cycle of depends_on.
C21_CycleErrorNamesCycleTask == CycleReported => OnCycle(adm_error.task)

C23_SelfDependencyRejected ==
    \A i \in SelfDependent :
        /\ AdmissionOver => adm_pc = "rejected"
        /\ validated =>
              \E k \in DOMAIN errors :
                  errors[k] = [task |-> submitted.tasks[i].id,
                               error |-> "Task cannot depend on itself"]

\* a task depends on itself and on nothing unknown, beside a task that depends on another
C23_Witness ==
    /\ validated
    /\ adm_pc = "rejected"
    /\ Dangling = {}
    /\ Cardinality(SelfDependent) = 1
    /\ \E i \in DOMAIN submitted.tasks \ SelfDependent :
          submitted.tasks[i].depends_on # {}

\* C24: a definition in which a task depends on an id that no task has is
\* rejected at admission: an admitted definition has no such dependency.
C24_NoDanglingDependencyAdmitted ==
    /\ (AdmissionOver /\ Dangling # {}) => adm_pc = "rejected"
    /\ adm_pc \in {"scan", "admitted"} => Dangling = {}

\* the dependency on the unknown id is the only thing wrong with what was submitted
C24_Witness ==
    /\ adm_pc = "rejected"
    /\ Dangling # {}
    /\ SelfDependent = {}
    /\ ~GraphHasCycle

\* C25: a task whose activity type is not registered is not dispatched.
C25_UnregisteredNeverDispatched ==
    \A t \in DOMAIN task_definitions :
        ~has(task_definitions[t].activity_type) =>
            dispatched_as[t] = "none" /\ activity_state[t] = "none"

\* the function of the last register call for type t, KeyError when there is none
LastRegistered(t) ==
    LET ks == {k \in DOMAIN registrations : registrations[k][1] = t}
    IN IF ks = {} THEN "KeyError"
       ELSE registrations[CHOOSE k \in ks : \A j \in ks : j <= k][2]

\* a register call for a type that already has the function it is called with
ReRegistration ==
    /\ registrations' # registrations
    /\ LastRegistered(reg_call'.activity_type) = registrations'[Len(registrations')][2]

\* C26: after any sequence of register calls, has(t) is true exactly for the types
\* registered at least once and get(t) returns the function of the most recent
\* register(t, .), failing for a type never registered; a get, and a register of
\* the pair a type already has, leave the registry as it is.
C26_RegistrySemantics ==
    /\ [](/\ \A t \in ActivityTypes :
                /\ has(t) <=> LastRegistered(t) # "KeyError"
                /\ get(t) = LastRegistered(t)
          /\ reg_call.op = "get" =>
                reg_call.result = LastRegistered(reg_call.activity_type)
          /\ reg_call.op = "has" =>
                (reg_call.result = "True"
                    <=> LastRegistered(reg_call.activity_type) # "KeyError"))
    /\ [][((reg_call'.op = "get" \/ ReRegistration) =>
              UNCHANGED <<activities, temporal_activities>>)]_vars

\* get returned the second of two functions registered for one type
C26_Witness ==
    /\ reg_call.op = "get"
    /\ reg_call.result = "g"
    /\ \E j, k \in DOMAIN registrations :
          /\ j < k
          /\ registrations[j] = <<reg_call.activity_type, "f">>
          /\ registrations[k] = <<reg_call.activity_type, "g">>

C28_TerminalErrorNamesTask ==
    (pc = "raised" /\ SomeTaskFailed) =>
        /\ raised.kind = "TaskFailed"
        /\ activity_state[raised.task] = "err"

\* C29: a duration string that the schema's validator accepts is parsed by
\* parse_duration without an error.
C29_AcceptedDurationsParse ==
    (schema_result = "accepted" /\ parsed.status # "none") => parsed.status = "ok"

IsDigits(text) == text # <<>> /\ \A k \in DOMAIN text : text[k] \in Digits

RECURSIVE NumberOf(_)
\* the number written with the digits of text, from the left
NumberOf(text) ==
    IF Len(text) = 1 THEN DigitValue(text[1])
    ELSE DigitValue(Head(text)) * 10 ^ (Len(text) - 1) + NumberOf(Tail(text))

SecondsPer(unit) == CASE unit = "s" -> 1 [] unit = "m" -> 60 [] unit = "h" -> 3600

\* C30: parse_duration maps "<n>s" to n seconds, "<n>m" to 60 n seconds and
\* "<n>h" to 3600 n seconds ("5s" to 5, "10m" to 600, "1h" to 3600), and fails
\* for the empty string, for a string that does not start with a digit and for a
\* last character that is none of s, m, h.
C30_ParseDurationMapping ==
    parsed.status # "none" =>
        /\ (duration_str # <<>> /\ IsDigits(Prefix(duration_str))
               /\ Last(duration_str) \in {"s", "m", "h"}) =>
              parsed = Duration("ok", NumberOf(Prefix(duration_str))
                                          * SecondsPer(Last(duration_str)))
        /\ duration_str = <<"5", "s">> => parsed = Duration("ok", 5)
        /\ duration_str = <<"1", "0", "m">> => parsed = Duration("ok", 600)
        /\ duration_str = <<"1", "h">> => parsed = Duration("ok", 3600)
        /\ (\/ duration_str = <<>>
            \/ duration_str[1] \notin Digits
            \/ Last(duration_str) \notin {"s", "m", "h"}) => parsed.status # "ok"

\* "10m" was parsed
C30_Witness ==
    /\ duration_str = <<"1", "0", "m">>
    /\ parsed = Duration("ok", 600)

LastBatch == batches[Len(batches)]
FailedInLastBatch == {t \in Range(LastBatch) : activity_state[t] = "err"}
RunBookkeeping == <<task_results, completed_tasks_order, failed_tasks>>

\* C31: when a concurrent batch has failed, every task of the batch whose
\* dispatch failed is in failed_tasks with its error, and the error raised is
\* the one of the first failed task of the batch.
C31_EveryBatchFailureRecorded ==
    exc.kind = "TaskFailed" =>
        /\ \A t \in FailedInLastBatch :
              t \in DOMAIN failed_tasks /\ failed_tasks[t] = ActivityError(t)
        /\ exc = TaskFailed(ready_tasks[FirstFailure(ready_tasks)].id)

\* C32: every task of a dispatched batch is dispatched and resolves on its own,
\* whatever its siblings do: the run leaves the await only when all of them
\* have resolved, and until then task_results, completed_tasks_order and
\* failed_tasks do not change.
C32_BatchResolvedAsAWhole ==
    /\ [](/\ pc = "await" =>
                \A i \in DOMAIN ready_tasks : activity_state[ready_tasks[i].id] # "none"
          /\ pc # "await" => \A t \in Dispatched : Resolved(activity_state[t]))
    /\ [][(pc = "await" /\ ~AllResolved) => UNCHANGED RunBookkeeping]_vars
    /\ [][(pc = "await" /\ pc' # "await") => AllResolved]_vars

\* in a batch of three the first dispatch failed and its two siblings resolved
\* after it, one with a result and one with an error
C32_Witness ==
    /\ pc = "raised"
    /\ Len(batches) = 1
    /\ Len(resolution_order) = 3
    /\ activity_state[resolution_order[1]] = "err"
    /\ activity_state[resolution_order[2]] = "ok"
    /\ activity_state[resolution_order[3]] = "err"

TimesDispatched(t) == Cardinality({i \in DOMAIN batches : t \in Range(batches[i])})

\* C35: no task is dispatched twice in a run: a batch dispatched holds no
\* completed task and no task of an earlier batch, and no id is twice in
\* completed_tasks_order.
C35_DispatchedAtMostOnce ==
    /\ [](/\ \A t \in TaskIds : TimesDispatched(t) <= 1
          /\ \A i \in DOMAIN batches : Len(batches[i]) = Cardinality(Range(batches[i]))
          /\ \A t \in TaskIds : Count(completed_tasks_order, t) <= 1
          /\ pc = "await" =>
                \A i \in DOMAIN ready_tasks : ready_tasks[i].id \notin completed_task_ids)
    /\ [][batches' # batches =>
            Range(batches'[Len(batches')]) \cap (completed_task_ids \cup Dispatched) = {}]_vars

\* the third batch was dispatched after two batches completed
C35_Witness ==
    /\ Len(batches) = 3
    /\ pc = "await"
    /\ Len(completed_tasks_order) = 2

\* C36: every task of completed_tasks_order comes after all the tasks it depends
\* on, and the compensation of a task is dispatched before the compensation of
\* any task it depends on.
C36_CompletionRespectsDependencies ==
    /\ \A t \in Range(completed_tasks_order) : \A d \in Deps(t) :
          /\ d \in Range(completed_tasks_order)
          /\ Pos(completed_tasks_order, d) < Pos(completed_tasks_order, t)
    /\ \A x, y \in Range(comp_log) :
          y \in Deps(x) => Pos(comp_log, x) < Pos(comp_log, y)

\* the compensation of a task ran before the compensation of the task it
\* depends on
C36_Witness ==
    /\ pc = "raised"
    /\ Len(comp_log) = 2
    /\ comp_log[2] \in Deps(comp_log[1])

\* C37: failed_tasks has at most one entry, none of a completed task, and is
\* empty while the loop schedules or awaits; the blocked-by-failure error is
\* never raised.
C37_FailedTasksOnlyAtAbort ==
    /\ Cardinality(DOMAIN failed_tasks) <= 1
    /\ DOMAIN failed_tasks \cap completed_task_ids = {}
    /\ pc \in {"schedule", "await"} => failed_tasks = <<>>
    /\ BlockedByFailure \notin {exc, raised, workflow_error}

\* a batch in which two dispatches failed ended the run with one entry in
\* failed_tasks
C37_Witness ==
    /\ pc = "raised"
    /\ Cardinality(DOMAIN failed_tasks) = 1
    /\ Cardinality(FailedInLastBatch) = 2

\* the run is over
RunEnded == pc \in {"returned", "raised"}

\* C38: the one status the finally block reports is COMPLETED only for a run in
\* which every task completed and that returns, and FAILED for every run that
\* ends with an error; a cancelled run is never reported COMPLETED; the report
\* is made once, after every compensation attempt has resolved, and the run ends
\* with the result or the error it had before the report.
C38_ReportedStatusMatchesOutcome ==
    /\ [](/\ Len(reported) <= 1
          /\ RunEnded => Len(reported) = 1
          /\ "COMPLETED" \in Range(reported) =>
                /\ completed_task_ids = all_task_ids
                /\ exc = NoError
                /\ cancellation # "delivered"
          /\ (RunEnded /\ raised # NoError) => reported = <<"FAILED">>
          /\ reported # <<>> =>
                /\ pc \notin {"compensate", "await_compensation"}
                /\ \A t \in Range(comp_log) : Resolved(comp_state[t]))
    /\ [][reported' # reported =>
            /\ raised' = exc
            /\ workflow_result' = workflow_result
            /\ comp_log' = comp_log]_vars

\* C39: every change of the status of the execution in the repository is an edge
\* of the workflow transition table; COMPLETED and CANCELLED are never left.
C39_PersistedStatusFollowsTable ==
    [][(execution.status # "None" /\ execution'.status # execution.status) =>
          <<execution.status, execution'.status>> \in TableEdges]_vars

\* this step is one of cancel_execution, and it ends the call
CancelStep == cancel_pc' # cancel_pc \/ cancel_calls' # cancel_calls
CancelEnds == CancelStep /\ cancel_pc' = "idle"
Cancellable == {"PENDING", "RUNNING"}

\* C40: cancel_execution writes CANCELLED only for an execution it found in
\* PENDING or RUNNING; for one it found in COMPLETED, FAILED or CANCELLED, and
\* when cancel_workflow fails, it raises and writes nothing; for an id without
\* execution it returns None and neither writes nor cancels anything.
C40_CancelOnlyPendingOrRunning ==
    /\ [][(CancelStep /\ execution' # execution) =>
            /\ cancel_seen \in Cancellable
            /\ cancel_result' = "execution"
            /\ execution' = [execution EXCEPT !.status = "CANCELLED",
                                              !.completed_at = "cancel_execution"]]_vars
    /\ [][(CancelEnds /\ cancel_seen' \in WorkflowState \ Cancellable) =>
            /\ cancel_result' = "CannotCancel"
            /\ UNCHANGED <<execution, cancellation>>]_vars
    /\ [][(CancelEnds /\ cancel_result' = "FailedToCancel") =>
            UNCHANGED <<execution, cancellation>>]_vars
    /\ [][(CancelEnds /\ (cancel_id' = "unknown" \/ cancel_seen' = "None")) =>
            /\ cancel_result' = "None"
            /\ UNCHANGED <<execution, cancellation>>]_vars
    /\ [](/\ cancel_pc \in {"cancel_workflow", "update"} => cancel_seen \in Cancellable
          /\ cancel_result = "execution" => cancel_seen \in Cancellable
          /\ cancel_result \in {"CannotCancel", "FailedToCancel"} =>
                cancel_seen \in WorkflowState)

\* a second call of cancel_execution found the execution CANCELLED by the first
\* and raised, and the execution is as the first call left it
C40_Witness ==
    /\ cancel_calls = 2
    /\ cancel_pc = "idle"
    /\ cancel_seen = "CANCELLED"
    /\ cancel_result = "CannotCancel"
    /\ execution = Execution("CANCELLED", "cancel_execution", TRUE)

====
